---- MODULE Spec2Model ----
(***************************************************************************)
(* Model of primitives.rs: the value types Suit, Rank, Card,              *)
(* HandIdentifier and PlayerName, their derived equality and ordering,    *)
(* their Display impls and the pure functions next, partner, player_name  *)
(* and primary_hand.                                                      *)
(*                                                                         *)
(* Every operation of the file is a total pure function, so the state of  *)
(* the model is the state of a caller: the seat whose turn it is, the     *)
(* player in view, the record of the calls made so far, a deck under      *)
(* construction, and the last comparison or rendering of cards.           *)
(*                                                                         *)
(* Rendered text is a sequence of Unicode scalar values (Rust chars):     *)
(* "10" followed by the club glyph U+2663 is <<49, 48, 9827>>.            *)
(***************************************************************************)
EXTENDS Naturals, Sequences, FiniteSets

VARIABLES hand, player, log, deck, call

vars == <<hand, player, log, deck, call>>

\* Longest record of seat/player calls kept by the caller.
MaxCalls == 5

(***************************************************************************)
(* The enums, each as the sequence of its variants in declaration order   *)
(* (the order derive(Sequence) iterates in and derive(Ord) compares by).  *)
(***************************************************************************)
Suit == <<"Clubs", "Diamonds", "Hearts", "Spades">>

Rank == <<"Two", "Three", "Four", "Five", "Six", "Seven", "Eight", "Nine",
          "Ten", "Jack", "Queen", "King", "Ace">>

HandIdentifier == <<"North", "East", "South", "West">>

PlayerName == <<"User", "Opponent">>

\* The set of values of an enum.
Variants(enum) == {enum[i] : i \in 1..Len(enum)}

\* The discriminant of variant v: its zero-based position in the declaration.
Discriminant(enum, v) == (CHOOSE i \in 1..Len(enum) : enum[i] = v) - 1

(***************************************************************************)
(* HandIdentifier and PlayerName functions.  Before each function stand    *)
(* variants of it with one slip (a wrong arm), against which the          *)
(* properties below are tried; the same holds for the card functions.     *)
(***************************************************************************)
next_stuck(self) ==
    CASE self = "North" -> "East"
      [] self = "East"  -> "South"
      [] self = "South" -> "West"
      [] self = "West"  -> "West"

next_skip(self) ==
    CASE self = "North" -> "South"
      [] self = "East"  -> "West"
      [] self = "South" -> "North"
      [] self = "West"  -> "East"

next(self) ==
    CASE self = "North" -> "East"
      [] self = "East"  -> "South"
      [] self = "South" -> "West"
      [] self = "West"  -> "North"

partner_rotated(self) ==
    CASE self = "North" -> "East"
      [] self = "East"  -> "South"
      [] self = "South" -> "West"
      [] self = "West"  -> "North"

partner(self) ==
    CASE self = "North" -> "South"
      [] self = "East"  -> "West"
      [] self = "South" -> "North"
      [] self = "West"  -> "East"

player_name_north_opponent(self) ==
    CASE self \in {"South"}                 -> "User"
      [] self \in {"North", "East", "West"} -> "Opponent"

player_name_neighbours(self) ==
    CASE self \in {"South", "West"} -> "User"
      [] self \in {"East", "North"} -> "Opponent"

player_name(self) ==
    CASE self \in {"South", "North"} -> "User"
      [] self \in {"East", "West"}   -> "Opponent"

primary_hand_dummy(self) ==
    CASE self = "User"     -> "South"
      [] self = "Opponent" -> "East"

primary_hand_swapped(self) ==
    CASE self = "User"     -> "West"
      [] self = "Opponent" -> "South"

primary_hand(self) ==
    CASE self = "User"     -> "South"
      [] self = "Opponent" -> "West"

(***************************************************************************)
(* Derived ordering and equality (derive(PartialEq, Eq, PartialOrd, Ord)). *)
(* An enum compares by discriminant; a struct compares field by field in   *)
(* declaration order, the first unequal field deciding.                    *)
(***************************************************************************)
enum_cmp(enum, a, b) ==
    IF Discriminant(enum, a) < Discriminant(enum, b) THEN "Less"
    ELSE IF Discriminant(enum, a) > Discriminant(enum, b) THEN "Greater"
    ELSE "Equal"

Suit_cmp(a, b) == enum_cmp(Suit, a, b)

Rank_cmp(a, b) == enum_cmp(Rank, a, b)

Card_new_ignores_rank(suit, rank) == [suit |-> suit, rank |-> "Two"]

Card_new(suit, rank) == [suit |-> suit, rank |-> rank]

Card_eq(a, b) == a.suit = b.suit /\ a.rank = b.rank

Card_cmp_rank_first(a, b) ==
    IF Rank_cmp(a.rank, b.rank) # "Equal"
    THEN Rank_cmp(a.rank, b.rank)
    ELSE Suit_cmp(a.suit, b.suit)

Card_cmp(a, b) ==
    IF Suit_cmp(a.suit, b.suit) # "Equal"
    THEN Suit_cmp(a.suit, b.suit)
    ELSE Rank_cmp(a.rank, b.rank)

(***************************************************************************)
(* Display.  Text is a sequence of Unicode scalar values.                  *)
(***************************************************************************)
Suit_fmt(self) ==
    CASE self = "Clubs"    -> <<9827>>
      [] self = "Diamonds" -> <<9830>>
      [] self = "Hearts"   -> <<9829>>
      [] self = "Spades"   -> <<9824>>

Rank_fmt(self) ==
    CASE self = "Two"   -> <<50>>
      [] self = "Three" -> <<51>>
      [] self = "Four"  -> <<52>>
      [] self = "Five"  -> <<53>>
      [] self = "Six"   -> <<54>>
      [] self = "Seven" -> <<55>>
      [] self = "Eight" -> <<56>>
      [] self = "Nine"  -> <<57>>
      [] self = "Ten"   -> <<49, 48>>
      [] self = "Jack"  -> <<74>>
      [] self = "Queen" -> <<81>>
      [] self = "King"  -> <<75>>
      [] self = "Ace"   -> <<65>>

Card_fmt_suit_first(self) == Suit_fmt(self.suit) \o Rank_fmt(self.rank)

Card_fmt(self) == Rank_fmt(self.rank) \o Suit_fmt(self.suit)

(***************************************************************************)
(* Seats and players: a caller walks the seats with next and partner,      *)
(* asks who controls the current seat, and moves to a player's primary     *)
(* hand.  Each call is recorded with its argument and its result.          *)
(***************************************************************************)
NoCall == [fn |-> "none"]

Entry(fn, arg, ret) == [fn |-> fn, arg |-> arg, ret |-> ret]

Init ==
    /\ hand \in Variants(HandIdentifier)
    /\ player \in Variants(PlayerName)
    /\ log = <<>>
    /\ deck = <<>>
    /\ call = NoCall

CallNext ==
    /\ Len(log) < MaxCalls
    /\ hand' = next(hand)
    /\ log' = Append(log, Entry("next", hand, hand'))
    /\ UNCHANGED <<player, deck, call>>

CallPartner ==
    /\ Len(log) < MaxCalls
    /\ hand' = partner(hand)
    /\ log' = Append(log, Entry("partner", hand, hand'))
    /\ UNCHANGED <<player, deck, call>>

CallPlayerName ==
    /\ Len(log) < MaxCalls
    /\ player' = player_name(hand)
    /\ log' = Append(log, Entry("player_name", hand, player'))
    /\ UNCHANGED <<hand, deck, call>>

CallPrimaryHand ==
    /\ Len(log) < MaxCalls
    /\ hand' = primary_hand(player)
    /\ log' = Append(log, Entry("primary_hand", player, hand'))
    /\ UNCHANGED <<player, deck, call>>

Next ==
    \/ CallNext
    \/ CallPartner
    \/ CallPlayerName
    \/ CallPrimaryHand

Spec == Init /\ [][Next]_vars

(***************************************************************************)
(* Cards: a deck is built by iterating Suit, and Rank within each suit,    *)
(* in declaration order, and pairing them with Card::new; cards of the     *)
(* finished deck are then compared and rendered, one call at a time.      *)
(***************************************************************************)
DeckComplete == Len(deck) = Len(Suit) * Len(Rank)

CardInit ==
    /\ hand = primary_hand("User")
    /\ player = "User"
    /\ log = <<>>
    /\ deck = <<>>
    /\ call = NoCall

Deal ==
    /\ ~DeckComplete
    /\ LET suit == Suit[(Len(deck) \div Len(Rank)) + 1]
           rank == Rank[(Len(deck) % Len(Rank)) + 1]
       IN  deck' = Append(deck, Card_new(suit, rank))
    /\ UNCHANGED <<hand, player, log, call>>

Compare ==
    /\ DeckComplete
    /\ call = NoCall
    /\ \E i, j \in 1..Len(deck) :
         call' = [fn  |-> "cmp", lhs |-> deck[i], rhs |-> deck[j],
                  ord |-> Card_cmp(deck[i], deck[j]),
                  eq  |-> Card_eq(deck[i], deck[j])]
    /\ UNCHANGED <<hand, player, log, deck>>

Show ==
    /\ DeckComplete
    /\ call = NoCall
    /\ \E i \in 1..Len(deck) :
         call' = [fn |-> "fmt", card |-> deck[i], text |-> Card_fmt(deck[i])]
    /\ UNCHANGED <<hand, player, log, deck>>

\* The caller takes the result; the next call can be made.
Return ==
    /\ call # NoCall
    /\ call' = NoCall
    /\ UNCHANGED <<hand, player, log, deck>>

CardNext ==
    \/ Deal
    \/ Compare
    \/ Show
    \/ Return

CardSpec == CardInit /\ [][CardNext]_vars

(***************************************************************************)
(* Properties of the seat and player functions, read off the call record. *)
(***************************************************************************)
Calls == 1..Len(log)

Seats == {"North", "East", "South", "West"}

\* log[i], ..., log[i+k-1] are k calls of fn in a row (each applied to the
\* result of the one before, as hand carries it).
RunOf(fn, i, k) ==
    /\ i + k - 1 <= Len(log)
    /\ \A j \in i..(i + k - 1) : log[j].fn = fn

\* C1: next is the cyclic permutation North -> East -> South -> West -> North:
\* it never returns its argument, k calls in a row return to the starting seat
\* for k = 4 and for no k in 1..3, and four calls in a row visit all four seats.
C1_NextIsFourCycle ==
    \A i \in Calls : log[i].fn = "next" =>
        /\ <<log[i].arg, log[i].ret>> \in
               {<<"North", "East">>, <<"East", "South">>,
                <<"South", "West">>, <<"West", "North">>}
        /\ log[i].ret # log[i].arg
        /\ \A k \in 1..3 : RunOf("next", i, k) => log[i + k - 1].ret # log[i].arg
        /\ RunOf("next", i, 4) =>
               /\ log[i + 3].ret = log[i].arg
               /\ {log[j].arg : j \in i..(i + 3)} = Seats

\* Four calls of next in a row, started at West, are on record.
C1_Witness ==
    \E i \in Calls : RunOf("next", i, 4) /\ log[i].arg = "West" /\ hand = "West"

\* C2: partner pairs North with South and East with West, never returns its
\* argument, and applied twice in a row returns the starting seat.
C2_PartnerIsInvolution ==
    \A i \in Calls : log[i].fn = "partner" =>
        /\ <<log[i].arg, log[i].ret>> \in
               {<<"North", "South">>, <<"South", "North">>,
                <<"East", "West">>, <<"West", "East">>}
        /\ log[i].ret # log[i].arg
        /\ RunOf("partner", i, 2) => log[i + 1].ret = log[i].arg

\* partner has been applied twice in a row, starting at East.
C2_Witness ==
    \E i \in Calls : RunOf("partner", i, 2) /\ log[i].arg = "East"

\* C3: whenever partner has taken seat s to seat t, player_name answers the
\* same player for s and for t.
C3_PartnersShareAPlayer ==
    \A i, j, k \in Calls :
        ( /\ log[k].fn = "partner"
          /\ log[i].fn = "player_name" /\ log[i].arg = log[k].arg
          /\ log[j].fn = "player_name" /\ log[j].arg = log[k].ret )
        => log[i].ret = log[j].ret

\* player_name was asked of a seat, then of its partner.
C3_Witness ==
    \E i \in Calls :
        /\ i + 2 <= Len(log)
        /\ log[i].fn = "player_name"
        /\ log[i + 1].fn = "partner"
        /\ log[i + 2].fn = "player_name"
        /\ log[i + 2].arg # log[i].arg

\* C4: player_name answers User exactly for South and North and Opponent
\* exactly for East and West; every seat gets exactly one of the two players.
C4_PlayerNamePartition ==
    /\ \A i \in Calls : log[i].fn = "player_name" =>
           /\ log[i].ret \in {"User", "Opponent"}
           /\ log[i].ret = "User" <=> log[i].arg \in {"South", "North"}
           /\ log[i].ret = "Opponent" <=> log[i].arg \in {"East", "West"}
    /\ {s \in Variants(HandIdentifier) : player_name(s) = "User"}
           = {"South", "North"}
    /\ {s \in Variants(HandIdentifier) : player_name(s) = "Opponent"}
           = {"East", "West"}

\* player_name has answered User for North and Opponent for a later seat.
C4_Witness ==
    \E i, j \in Calls :
        /\ log[i].fn = "player_name" /\ log[i].arg = "North"
        /\ log[i].ret = "User"
        /\ log[j].fn = "player_name" /\ log[j].ret = "Opponent"

\* C5: primary_hand(User) is South and primary_hand(Opponent) is West, and the
\* caller is at that seat right after the call.
C5_PrimaryHandFixed ==
    /\ \A i \in Calls : log[i].fn = "primary_hand" =>
           /\ log[i].arg = "User" => log[i].ret = "South"
           /\ log[i].arg = "Opponent" => log[i].ret = "West"
    /\ (log # <<>> /\ log[Len(log)].fn = "primary_hand")
           => hand = log[Len(log)].ret

\* primary_hand has been called for both players.
C5_Witness ==
    \E i, j \in Calls :
        /\ log[i].fn = "primary_hand" /\ log[i].arg = "User"
        /\ log[j].fn = "primary_hand" /\ log[j].arg = "Opponent"

\* C9: player_name of a player's primary hand is that player; primary_hand of
\* a seat's player is that seat exactly when the seat is South or West.
C9_PrimaryHandRightInverse ==
    \A i \in Calls : i < Len(log) =>
        /\ (log[i].fn = "primary_hand" /\ log[i + 1].fn = "player_name")
               => log[i + 1].ret = log[i].arg
        /\ (log[i].fn = "player_name" /\ log[i + 1].fn = "primary_hand")
               => (log[i + 1].ret = log[i].arg
                       <=> log[i].arg \in {"South", "West"})

\* Both round trips are on record, the second one from a dummy seat.
C9_Witness ==
    \E i, j \in Calls :
        /\ i < Len(log) /\ j < Len(log)
        /\ log[i].fn = "primary_hand" /\ log[i + 1].fn = "player_name"
        /\ log[j].fn = "player_name" /\ log[j + 1].fn = "primary_hand"
        /\ log[j].arg \in {"North", "East"}
        /\ log[j + 1].ret # log[j].arg

\* C10: two calls of next in a row from seat s end at the seat partner gives
\* for s, and every call of next passes control to the other player.
C10_RotationAgreesWithPartnership ==
    /\ \A i, k \in Calls :
           (RunOf("next", i, 2) /\ log[k].fn = "partner"
                /\ log[k].arg = log[i].arg)
           => log[k].ret = log[i + 1].ret
    /\ \A i \in Calls : log[i].fn = "next" =>
           /\ player_name(log[i].ret) # player_name(log[i].arg)
           /\ RunOf("next", i, 2) => log[i + 1].ret = partner(log[i].arg)
    /\ \A i, j, k \in Calls :
           ( /\ log[k].fn = "next"
             /\ log[i].fn = "player_name" /\ log[i].arg = log[k].arg
             /\ log[j].fn = "player_name" /\ log[j].arg = log[k].ret )
           => log[i].ret # log[j].ret

\* partner and two calls of next in a row have been applied to the same seat.
C10_Witness ==
    \E i, k \in Calls :
        /\ RunOf("next", i, 2)
        /\ log[k].fn = "partner"
        /\ log[k].arg = log[i].arg

(***************************************************************************)
(* Properties of cards.                                                     *)
(***************************************************************************)
\* The orders as the documentation states them: Clubs < Diamonds < Hearts <
\* Spades, and Two lowest to Ace highest.
SuitKey(s) ==
    CASE s = "Clubs" -> 1 [] s = "Diamonds" -> 2
      [] s = "Hearts" -> 3 [] s = "Spades" -> 4

RankKey(r) ==
    CASE r = "Two" -> 2 [] r = "Three" -> 3 [] r = "Four" -> 4
      [] r = "Five" -> 5 [] r = "Six" -> 6 [] r = "Seven" -> 7
      [] r = "Eight" -> 8 [] r = "Nine" -> 9 [] r = "Ten" -> 10
      [] r = "Jack" -> 11 [] r = "Queen" -> 12 [] r = "King" -> 13
      [] r = "Ace" -> 14

DeckCards == {deck[i] : i \in 1..Len(deck)}

\* C6: the order on Card is a strict total order, lexicographic by suit then
\* rank: a lower suit makes a card less whatever the ranks, within a suit the
\* lower rank is less, and two cards compare equal iff suit and rank agree.
C6_CardOrderLexicographic ==
    call.fn = "cmp" =>
        LET a == call.lhs
            b == call.rhs
        IN  /\ call.ord \in {"Less", "Equal", "Greater"}
            /\ SuitKey(a.suit) < SuitKey(b.suit) => call.ord = "Less"
            /\ SuitKey(a.suit) > SuitKey(b.suit) => call.ord = "Greater"
            /\ a.suit = b.suit =>
                   (call.ord = "Less" <=> RankKey(a.rank) < RankKey(b.rank))
            /\ call.ord = "Equal" <=> (a.suit = b.suit /\ a.rank = b.rank)
            /\ call.eq <=> call.ord = "Equal"
            /\ call.ord = "Less" <=> Card_cmp(b, a) = "Greater"
            /\ \A c \in DeckCards :
                   (call.ord = "Less" /\ Card_cmp(b, c) = "Less")
                       => Card_cmp(a, c) = "Less"

\* The ace of clubs has been compared with the two of diamonds, and is less.
C6_Witness ==
    /\ call.fn = "cmp"
    /\ call.lhs = [suit |-> "Clubs", rank |-> "Ace"]
    /\ call.rhs = [suit |-> "Diamonds", rank |-> "Two"]
    /\ call.ord = "Less"

\* C7: the cards built from every suit and rank are pairwise unequal, and the
\* finished enumeration holds exactly 52 of them, one for each pair.
C7_DeckHas52DistinctCards ==
    /\ \A i, j \in 1..Len(deck) : i # j => ~Card_eq(deck[i], deck[j])
    /\ Len(deck) <= 52
    /\ DeckComplete =>
           /\ Len(deck) = 52
           /\ Cardinality(DeckCards) = 52
           /\ \A s \in {"Clubs", "Diamonds", "Hearts", "Spades"} :
                  Cardinality({c \in DeckCards : c.suit = s}) = 13

\* The enumeration has finished.
C7_Witness ==
    /\ DeckComplete
    /\ deck[1] = [suit |-> "Clubs", rank |-> "Two"]
    /\ deck[Len(deck)] = [suit |-> "Spades", rank |-> "Ace"]

\* The renderings as the documentation states them, as Unicode scalar values:
\* the digits of 2 to 10, the letters J Q K A, and the four suit glyphs
\* U+2663, U+2666, U+2665, U+2660.
RankText(r) ==
    CASE r = "Two" -> <<50>> [] r = "Three" -> <<51>> [] r = "Four" -> <<52>>
      [] r = "Five" -> <<53>> [] r = "Six" -> <<54>> [] r = "Seven" -> <<55>>
      [] r = "Eight" -> <<56>> [] r = "Nine" -> <<57>>
      [] r = "Ten" -> <<49, 48>> [] r = "Jack" -> <<74>>
      [] r = "Queen" -> <<81>> [] r = "King" -> <<75>> [] r = "Ace" -> <<65>>

SuitGlyph(s) ==
    CASE s = "Clubs" -> 9827 [] s = "Diamonds" -> 9830
      [] s = "Hearts" -> 9829 [] s = "Spades" -> 9824

\* C8: a card renders as its rank's text immediately followed by its suit's
\* glyph and nothing else; the ace of spades is "A" then U+2660, the ten of
\* clubs is "1", "0" then U+2663.
C8_CardRendersRankThenSuit ==
    call.fn = "fmt" =>
        /\ call.text = RankText(call.card.rank) \o <<SuitGlyph(call.card.suit)>>
        /\ Len(call.text) = Len(RankText(call.card.rank)) + 1
        /\ call.card = [suit |-> "Spades", rank |-> "Ace"]
               => call.text = <<65, 9824>>
        /\ call.card = [suit |-> "Clubs", rank |-> "Ten"]
               => call.text = <<49, 48, 9827>>

\* The ten of clubs has been rendered.
C8_Witness ==
    /\ call.fn = "fmt"
    /\ call.card = [suit |-> "Clubs", rank |-> "Ten"]
    /\ Len(call.text) = 3

====
